---- MODULE Spec2Model ----
(***************************************************************************)
(* Model of the JOS kernel monitor (kern/monitor.c): the read-eval-print   *)
(* loop monitor(), the tokenizer and dispatcher runcmd(), and the command  *)
(* handlers mon_help .. mon_si.                                            *)
(*                                                                         *)
(* 32-bit words (size_t, pte_t, uint32_t) are pairs <<hi, lo>> with hi the *)
(* upper 20 bits (the page number) and lo the lower 12 bits (the page      *)
(* offset / flag bits), so that all arithmetic is exact modulo 2^32.       *)
(***************************************************************************)
EXTENDS Integers, Sequences, FiniteSets, TLC

\* ------------------------------------------------------------------------
\* Program constants
\* ------------------------------------------------------------------------
MAXARGS == 16
PGSIZE == 4096
NPN == 1048576
KERNBASE == <<983040, 0>>
PTE_P == 1
PTE_W == 2
PTE_U == 4
PTE_PWT == 8
PTE_PCD == 16
PTE_A == 32
PTE_D == 64
PTE_PS == 128
PTE_G == 256
FL_TF == <<0, 256>>
T_DEBUG == 1
T_BRKPT == 3
T_PGFLT == 14
WHITESPACE == {"\t", "\r", "\n", " "}

\* ------------------------------------------------------------------------
\* 32-bit unsigned arithmetic on <<hi, lo>> pairs
\* ------------------------------------------------------------------------
Zero == <<0, 0>>

\* a < b on uint32_t
Lt(a, b) == a[1] < b[1] \/ (a[1] = b[1] /\ a[2] < b[2])

\* a + n modulo 2^32, for 0 <= n <= PGSIZE
AddU(a, n) ==
    LET lo == a[2] + n
    IN  <<(a[1] + (lo \div PGSIZE)) % NPN, lo % PGSIZE>>

\* a + b modulo 2^32
Add32(a, b) ==
    LET lo == a[2] + b[2]
    IN  <<(a[1] + b[1] + (lo \div PGSIZE)) % NPN, lo % PGSIZE>>

\* a * base + dig modulo 2^32, for base <= 16 and dig < base
MulAddU(a, base, dig) ==
    LET lo == a[2] * base + dig
    IN  <<(a[1] * base + (lo \div PGSIZE)) % NPN, lo % PGSIZE>>

\* two's complement negation modulo 2^32
NegU(a) ==
    IF a[2] = 0 THEN <<(NPN - a[1]) % NPN, 0>>
    ELSE <<NPN - 1 - a[1], PGSIZE - a[2]>>

RECURSIVE BitOr(_, _)
BitOr(x, y) ==
    IF x = 0 THEN y
    ELSE IF y = 0 THEN x
    ELSE (IF x % 2 = 1 \/ y % 2 = 1 THEN 1 ELSE 0) + 2 * BitOr(x \div 2, y \div 2)

RECURSIVE BitAnd(_, _)
BitAnd(x, y) ==
    IF x = 0 \/ y = 0 THEN 0
    ELSE (IF x % 2 = 1 /\ y % 2 = 1 THEN 1 ELSE 0) + 2 * BitAnd(x \div 2, y \div 2)

\* a | b, a & b, ~a on uint32_t
OrU(a, b) == <<BitOr(a[1], b[1]), BitOr(a[2], b[2])>>
AndU(a, b) == <<BitAnd(a[1], b[1]), BitAnd(a[2], b[2])>>
NotU(a) == <<NPN - 1 - a[1], PGSIZE - 1 - a[2]>>

ROUNDDOWN(a) == <<a[1], 0>>
PGNUM(a) == a[1]
PTE_ADDR(pte) == <<pte[1], 0>>

\* ------------------------------------------------------------------------
\* C strings: a buffer is a sequence of one-character strings followed by
\* an implicit terminator; a pointer into it is a 1-based position, the
\* null pointer is 0.
\* ------------------------------------------------------------------------
NUL == "NUL"
NULL == 0
UNINIT == -1

At(b, p) == IF p >= 1 /\ p <= Len(b) THEN b[p] ELSE NUL

RECURSIVE CStr(_, _)
CStr(b, p) == IF At(b, p) = NUL THEN <<>> ELSE <<At(b, p)>> \o CStr(b, p + 1)

DigitOf(c) ==
    CASE c = "0" -> 0 [] c = "1" -> 1 [] c = "2" -> 2 [] c = "3" -> 3
      [] c = "4" -> 4 [] c = "5" -> 5 [] c = "6" -> 6 [] c = "7" -> 7
      [] c = "8" -> 8 [] c = "9" -> 9
      [] c = "a" -> 10 [] c = "b" -> 11 [] c = "c" -> 12
      [] c = "d" -> 13 [] c = "e" -> 14 [] c = "f" -> 15
      [] c = "A" -> 10 [] c = "B" -> 11 [] c = "C" -> 12
      [] c = "D" -> 13 [] c = "E" -> 14 [] c = "F" -> 15
      [] OTHER -> 99

RECURSIVE StrtolDigits(_, _, _, _)
StrtolDigits(s, p, base, val) ==
    IF DigitOf(At(s, p)) >= base THEN val
    ELSE StrtolDigits(s, p + 1, base, MulAddU(val, base, DigitOf(At(s, p))))

\* strtol(s, NULL, 0) converted to size_t
strtol(s) ==
    LET neg == At(s, 1) = "-"
        p0  == IF At(s, 1) = "+" \/ At(s, 1) = "-" THEN 2 ELSE 1
        hex == At(s, p0) = "0" /\ At(s, p0 + 1) = "x"
        oct == ~hex /\ At(s, p0) = "0"
        base == IF hex THEN 16 ELSE IF oct THEN 8 ELSE 10
        p1  == IF hex THEN p0 + 2 ELSE IF oct THEN p0 + 1 ELSE p0
        val == StrtolDigits(s, p1, base, Zero)
    IN  IF neg THEN NegU(val) ELSE val

\* ------------------------------------------------------------------------
\* runcmd: tokenizer
\* ------------------------------------------------------------------------
\* mutant: whitespace is skipped but not overwritten with the terminator
RECURSIVE Gobble_mut(_, _)
Gobble_mut(b, p) ==
    IF At(b, p) # NUL /\ At(b, p) \in WHITESPACE
    THEN Gobble_mut(b, p + 1)
    ELSE [buf |-> b, p |-> p]

\* while (*buf && strchr(WHITESPACE, *buf)) *buf++ = 0;
RECURSIVE Gobble(_, _)
Gobble(b, p) ==
    IF At(b, p) # NUL /\ At(b, p) \in WHITESPACE
    THEN Gobble([b EXCEPT ![p] = NUL], p + 1)
    ELSE [buf |-> b, p |-> p]

\* while (*buf && !strchr(WHITESPACE, *buf)) buf++;
RECURSIVE ScanArg(_, _)
ScanArg(b, p) ==
    IF At(b, p) # NUL /\ At(b, p) \notin WHITESPACE
    THEN ScanArg(b, p + 1)
    ELSE p

\* mutant: the limit test lets the last slot and one past it be filled
ArgvFull_mut(argc) == argc = MAXARGS + 1

\* if (argc == MAXARGS-1)
ArgvFull(argc) == argc = MAXARGS - 1

\* the while (1) loop of runcmd; wr collects the argv indices written
RECURSIVE ParseLoop(_, _, _, _, _)
ParseLoop(b, p, argc, argv, wr) ==
    LET g == Gobble(b, p)
    IN  IF At(g.buf, g.p) = NUL
        THEN [err |-> FALSE, buf |-> g.buf, argc |-> argc,
              argv |-> [i \in DOMAIN argv |-> IF i = argc THEN NULL ELSE argv[i]],
              wr |-> wr \cup {argc}]
        ELSE IF ArgvFull(argc)
        THEN [err |-> TRUE, buf |-> g.buf, argc |-> argc, argv |-> argv, wr |-> wr]
        ELSE ParseLoop(g.buf, ScanArg(g.buf, g.p), argc + 1,
                       [i \in DOMAIN argv |-> IF i = argc THEN g.p ELSE argv[i]],
                       wr \cup {argc})

\* argc = 0; argv[argc] = 0; while (1) { ... } argv[argc] = 0;
\* the array has MAXARGS slots; slots never written hold UNINIT. The domain
\* is widened so that an out-of-range store shows up in wr and argv.
Tokenize(b) ==
    ParseLoop(b, 1, 0, [i \in 0..(MAXARGS + 1) |-> IF i = 0 THEN NULL ELSE UNINIT], {0})

\* ------------------------------------------------------------------------
\* Command registry
\* ------------------------------------------------------------------------
c_help == <<"h", "e", "l", "p">>
c_kerninfo == <<"k", "e", "r", "n", "i", "n", "f", "o">>
c_backtrace == <<"b", "a", "c", "k", "t", "r", "a", "c", "e">>
c_map == <<"m", "a", "p">>
c_set == <<"s", "e", "t">>
c_xp == <<"x", "p">>
c_xv == <<"x", "v">>
c_c == <<"c">>
c_si == <<"s", "i">>

commands ==
    << [name |-> c_help,      func |-> "mon_help"],
       [name |-> c_kerninfo,  func |-> "mon_kerninfo"],
       [name |-> c_backtrace, func |-> "mon_backtrace"],
       [name |-> c_map,       func |-> "mon_map"],
       [name |-> c_set,       func |-> "mon_set"],
       [name |-> c_xp,        func |-> "mon_xp"],
       [name |-> c_xv,        func |-> "mon_xv"],
       [name |-> c_c,         func |-> "mon_c"],
       [name |-> c_si,        func |-> "mon_si"] >>

NCOMMANDS == Len(commands)

\* mutant: only the length of the registered name is compared (strncmp)
StrEq_mut(a, b) == Len(a) >= Len(b) /\ SubSeq(a, 1, Len(b)) = b

\* strcmp(a, b) == 0
StrEq(a, b) == a = b

\* for (i = 0; i < NCOMMANDS; i++) if (strcmp(argv[0], commands[i].name) == 0)
\* index of the first matching entry, 0 when there is none
RECURSIVE LookupFrom(_, _)
LookupFrom(name, i) ==
    IF i > NCOMMANDS THEN 0
    ELSE IF StrEq(name, commands[i].name) THEN i
    ELSE LookupFrom(name, i + 1)

\* mutant: the search starts at the second entry
Lookup_mut(name) == LookupFrom(name, 2)

\* for (i = 0; i < NCOMMANDS; i++)
Lookup(name) == LookupFrom(name, 1)

\* ------------------------------------------------------------------------
\* Page table (behind pgdir_walk) and the status rendering
\* ------------------------------------------------------------------------
\* pgdir_walk(kern_pgdir, va, true): the table after the walk; a missing
\* entry is created zeroed
Walk(t, va) ==
    IF PGNUM(va) \in DOMAIN t THEN t
    ELSE [n \in DOMAIN t \cup {PGNUM(va)} |-> IF n \in DOMAIN t THEN t[n] ELSE Zero]

Flag(pte, bit, ch) == IF BitAnd(pte[2], bit) # 0 THEN ch ELSE "-"

Status(pte) ==
    << Flag(pte, PTE_G, "G"), Flag(pte, PTE_PS, "S"), Flag(pte, PTE_D, "D"),
       Flag(pte, PTE_A, "A"), Flag(pte, PTE_PCD, "C"), Flag(pte, PTE_PWT, "T"),
       Flag(pte, PTE_U, "U"), Flag(pte, PTE_W, "W"), Flag(pte, PTE_P, "P") >>

\* cprintf("[%5x-%5x] %s %5x\n", PGNUM(i), PGNUM(i)+1, status, PGNUM(*pgtable))
PageRow(va, pte) ==
    [k |-> "row", lo |-> PGNUM(va), hi |-> PGNUM(va) + 1,
     status |-> Status(pte), frame |-> PGNUM(pte)]

\* *pgtable = PTE_ADDR(*pgtable) | flag
SetEntry(pte, flag) == OrU(PTE_ADDR(pte), flag)

\* mutant: the range test made after start is rounded down
MapInvalid_mut(start, end) == Lt(ROUNDDOWN(start), Zero) \/ Lt(end, ROUNDDOWN(start))

\* if (start < 0 || start > end)
MapInvalid(start, end) == Lt(start, Zero) \/ Lt(end, start)

\* mutant: i <= end
MapCond_mut(i, end) == ~Lt(end, i)

\* i < end, the condition of mon_map's loop
MapCond(i, end) == Lt(i, end)

\* mutant: the page is rounded up to the next page
SetTarget_mut(page) == AddU(ROUNDDOWN(page), PGSIZE)

\* page = ROUNDDOWN(page, PGSIZE): the address mon_set hands to the walker
SetTarget(page) == ROUNDDOWN(page)

\* if (page < 0 || page > KERNBASE)
SetInvalid(page) == Lt(page, Zero) \/ Lt(KERNBASE, page)

\* ------------------------------------------------------------------------
\* Trap frame
\* ------------------------------------------------------------------------
\* tf == NULL || (tf->tf_trapno != T_BRKPT && tf->tf_trapno != T_DEBUG)
\* p is the pointer tf, f the struct Trapframe it points to
InvalidTrapframe(p, f) ==
    p = NULL \/ (f.tf_trapno # T_BRKPT /\ f.tf_trapno # T_DEBUG)

\* mutant: the flag is left as it is
ClearTF_mut(e) == e

\* tf->tf_eflags &= ~FL_TF
ClearTF(e) == AndU(e, NotU(FL_TF))

\* tf->tf_eflags |= FL_TF
SetTF(e) == OrU(e, FL_TF)

\* mutant: the loop also stops on status 0
AfterRuncmd_le(r) == IF r <= 0 THEN "done" ELSE "readline"

\* mutant: the loop ignores runcmd's status
AfterRuncmd_mut(r) == "readline"

\* if (runcmd(buf, tf) < 0) break;
AfterRuncmd(r) == IF r < 0 THEN "done" ELSE "readline"

\* ------------------------------------------------------------------------
\* Inputs: the lines readline can hand to the monitor
\* ------------------------------------------------------------------------
MaxTokens == 17
MaxLen == 3
\* longest line of the tokenizer's own specification
MaxTokLen == 4
\* rows one map command may print before the model stops following it
MaxRows == 4
\* frame lines one backtrace may print before the model stops following it
MaxFrames == 4

SP == <<" ">>

n_0 == <<"0">>
n_1 == <<"1">>
n_4 == <<"4">>
n_5 == <<"5">>
n_7 == <<"7">>
n_4096 == <<"4", "0", "9", "6">>
n_0x105 == <<"0", "x", "1", "0", "5">>
n_0x1000 == <<"0", "x", "1", "0", "0", "0">>
n_0x1100 == <<"0", "x", "1", "1", "0", "0">>
n_0x1234 == <<"0", "x", "1", "2", "3", "4">>
n_0x2000 == <<"0", "x", "2", "0", "0", "0">>
n_0x3000 == <<"0", "x", "3", "0", "0", "0">>
n_0x5007 == <<"0", "x", "5", "0", "0", "7">>
n_kernbase == <<"0", "x", "f", "0", "0", "0", "0", "0", "0", "0">>
n_kernbase1 == <<"0", "x", "f", "0", "0", "0", "0", "0", "0", "1">>
n_kernpage1 == <<"0", "x", "f", "0", "0", "0", "1", "0", "0", "0">>
n_top == <<"0", "x", "f", "f", "f", "f", "f", "f", "f", "8">>
n_0xffffe000 == <<"0", "x", "f", "f", "f", "f", "e", "0", "0", "0">>
n_0xffffe800 == <<"0", "x", "f", "f", "f", "f", "e", "8", "0", "0">>
n_0xfffff000 == <<"0", "x", "f", "f", "f", "f", "f", "0", "0", "0">>
n_0xfffff001 == <<"0", "x", "f", "f", "f", "f", "f", "0", "0", "1">>
n_0xffffffff == <<"0", "x", "f", "f", "f", "f", "f", "f", "f", "f">>

Cmd2(c, a, b) == c \o SP \o a \o SP \o b

\* n tokens: "help" followed by n-1 arguments "a"
RECURSIVE HelpArgs(_)
HelpArgs(n) == IF n <= 1 THEN c_help ELSE HelpArgs(n - 1) \o SP \o <<"a">>

\* every string over a small alphabet, up to MaxLen characters
RECURSIVE Strings(_)
Strings(n) ==
    IF n = 0 THEN {<<>>}
    ELSE LET S == Strings(n - 1)
         IN  S \cup {Append(x, ch) : x \in S, ch \in {" ", "c"}}

MapNums == {n_0x1000, n_0x1234, n_0x2000, n_0x3000}
SetPages == {n_0x1000, n_0x1234, n_4096}
SetFlags == {n_0x105, n_0x5007}
SetEdges == {n_kernbase, n_kernbase1, n_kernpage1}
DumpLens == {n_0, n_1, n_4, n_5}

Lines ==
    {c_help, c_kerninfo, c_backtrace, c_map, c_set, c_xp, c_xv, c_c, c_si}
    \cup {SP \o SP \o c_help \o SP \o SP, <<"\t">> \o c_c \o <<"\r", "\n">>, <<"f", "o", "o">>,
          <<"s">>, <<"s", "i", "i">>, <<"S", "I">>}
    \cup {c_map \o SP \o n_0x1000, c_set \o SP \o n_0x1000,
          c_xp \o SP \o n_0x1000, c_xv \o SP \o n_0x1000}
    \cup {Cmd2(c_map, a, b) : a \in MapNums, b \in MapNums}
    \cup {Cmd2(c_map, n_kernbase, n_kernpage1), Cmd2(c_map, n_0x1234, n_0x1100)}
    \cup {Cmd2(c_set, a, b) : a \in SetPages, b \in SetFlags}
    \cup {Cmd2(c_set, a, n_7) : a \in SetEdges}
    \cup {Cmd2(c, n_0x1000, b) : c \in {c_xp, c_xv}, b \in DumpLens}
    \cup {Cmd2(c, n_top, n_4) : c \in {c_xp, c_xv}}
    \cup {HelpArgs(n) : n \in {2} \cup ((MAXARGS - 2)..MaxTokens)}
    \cup Strings(MaxLen)

\* what strtol can return when handed a null or uninitialized argv slot and
\* the read does not fault: whatever lies there, here text with no digits
UBVals == {Zero}

\* the kernel stack: frame pointer -> saved ebp, return eip, five words
F1 == <<983312, 3928>>
F2 == <<983312, 3992>>
F3 == <<983312, 4056>>
\* two frames of a corrupted stack whose saved frame pointers form a cycle
G1 == <<983313, 3928>>
G2 == <<983313, 3992>>

KStack ==
    (F1 :> [ebp |-> F2,   eip |-> <<983296, 2345>>, args |-> <<1, 2, 3, 4, 5>>])
    @@ (F2 :> [ebp |-> F3,   eip |-> <<983296, 240>>,  args |-> <<0, 0, 0, 0, 0>>])
    @@ (F3 :> [ebp |-> Zero, eip |-> <<983296, 62>>,   args |-> <<0, 0, 0, 0, 0>>])
    @@ (G1 :> [ebp |-> G2,   eip |-> <<983296, 2345>>, args |-> <<0, 0, 0, 0, 0>>])
    @@ (G2 :> [ebp |-> G1,   eip |-> <<983296, 240>>,  args |-> <<0, 0, 0, 0, 0>>])

\* the page table the kernel booted with
BootPt ==
    (1 :> <<291, 103>>) @@ (983040 :> <<0, 3>>)

NoFrame == [tf_trapno |-> 0, tf_eflags |-> Zero, tf_eip |-> Zero]

Trapframes ==
    { [tf_trapno |-> T_BRKPT, tf_eflags |-> <<0, 514>>, tf_eip |-> <<2048, 32>>],
      [tf_trapno |-> T_DEBUG, tf_eflags |-> <<64, 775>>, tf_eip |-> <<2048, 33>>],
      [tf_trapno |-> T_PGFLT, tf_eflags |-> <<0, 514>>, tf_eip |-> <<2048, 40>>] }

\* ------------------------------------------------------------------------
\* State
\* ------------------------------------------------------------------------
VARIABLES
    pc,         \* where control is: start, readline, runcmd, dispatch,
                \* map_loop, xp_loop, xv_loop, bt_loop, done, env_run, panic
    tf,         \* monitor's argument: NULL or a pointer to the trap frame
    trapframe,  \* the struct Trapframe tf points to
    pt,         \* page number -> page-table entry, for the entries that exist
    buf,        \* monitor's buf: what readline returned
    linebuf,    \* the characters of the line buffer
    argc, argv, \* runcmd's locals
    wr,         \* the argv indices runcmd has stored to
    out,        \* what the current command has printed
    walks,      \* the pgdir_walk calls of the current command
    ret,        \* runcmd's return value
    called,     \* the handler runcmd invoked, "none" if none
    runs,       \* number of env_run calls
    runtf,      \* the trap frame as it was when env_run was called
    i, lim,     \* loop variable and loop limit of mon_map, mon_xp, mon_xv
    start,      \* mon_xp / mon_xv: address of the current line
    cur,        \* mon_backtrace: current frame pointer
    lastset     \* the last store mon_set made: page number, the flag argument
                \* and the frame number of the entry the walker returned

vars == <<pc, tf, trapframe, pt, buf, linebuf, argc, argv, wr, out, walks, ret,
          called, runs, runtf, i, lim, start, cur, lastset>>

kernel == <<tf, trapframe, pt, runs, runtf, lastset>>

NoSet == [pn |-> -1, flag |-> Zero, before |-> 0]
input == <<buf, linebuf>>
parsed == <<argc, argv, wr>>
loopv == <<i, lim, start, cur>>

NoArgv == [n \in 0..(MAXARGS + 1) |-> UNINIT]

Init ==
    /\ pc = "start"
    /\ \/ tf = NULL /\ trapframe = NoFrame
       \/ tf = 1 /\ trapframe \in Trapframes
    /\ pt = BootPt
    /\ buf = UNINIT
    /\ linebuf = <<>>
    /\ argc = 0
    /\ argv = NoArgv
    /\ wr = {}
    /\ out = <<>>
    /\ walks = <<>>
    /\ ret = 0
    /\ called = "none"
    /\ runs = 0
    /\ runtf = NoFrame
    /\ i = Zero
    /\ lim = Zero
    /\ start = Zero
    /\ cur = Zero
    /\ lastset = NoSet

\* ------------------------------------------------------------------------
\* monitor
\* ------------------------------------------------------------------------
\* banner; if (tf != NULL) print_trapframe(tf);
Start ==
    /\ pc = "start"
    /\ out' = IF tf # NULL THEN <<[k |-> "banner"], [k |-> "trapframe", tf |-> trapframe]>>
              ELSE <<[k |-> "banner"]>>
    /\ pc' = "readline"
    /\ UNCHANGED <<kernel, input, parsed, loopv, walks, ret, called>>

\* buf = readline("K> "); if (buf != NULL) ...
ReadLine ==
    /\ pc = "readline"
    /\ \/ \E l \in Lines :
            /\ buf' = 1
            /\ linebuf' = l
            /\ pc' = "runcmd"
       \/ /\ buf' = NULL
          /\ linebuf' = <<>>
          /\ pc' = "readline"
    /\ argc' = 0
    /\ argv' = NoArgv
    /\ wr' = {}
    /\ out' = <<>>
    /\ walks' = <<>>
    /\ ret' = 0
    /\ called' = "none"
    /\ i' = Zero
    /\ lim' = Zero
    /\ start' = Zero
    /\ cur' = Zero
    /\ UNCHANGED kernel

\* ------------------------------------------------------------------------
\* runcmd
\* ------------------------------------------------------------------------
\* lines 222-241: tokenize the line in place
RunCmdParse ==
    /\ pc = "runcmd"
    /\ LET t == Tokenize(linebuf)
       IN  /\ linebuf' = t.buf
           /\ argc' = t.argc
           /\ argv' = t.argv
           /\ wr' = t.wr
           /\ IF t.err
              THEN /\ out' = <<[k |-> "too_many", max |-> MAXARGS]>>
                   /\ ret' = 0
                   /\ pc' = AfterRuncmd(0)
              ELSE /\ pc' = "dispatch"
                   /\ UNCHANGED <<out, ret>>
    /\ UNCHANGED <<kernel, buf, loopv, walks, called>>

\* the registry index runcmd resolves argv[0] to, 0 if none
Cmd == IF argc = 0 THEN 0 ELSE Lookup(CStr(linebuf, argv[0]))

Func == IF Cmd = 0 THEN "none" ELSE commands[Cmd].func

\* if (argc == 0) return 0;
RunCmdEmpty ==
    /\ pc = "dispatch"
    /\ argc = 0
    /\ ret' = 0
    /\ pc' = AfterRuncmd(0)
    /\ UNCHANGED <<kernel, input, parsed, loopv, out, walks, called>>

\* cprintf("Unknown command '%s'\n", argv[0]); return 0;
RunCmdUnknown ==
    /\ pc = "dispatch"
    /\ argc # 0
    /\ Cmd = 0
    /\ out' = <<[k |-> "unknown", name |-> CStr(linebuf, argv[0])]>>
    /\ ret' = 0
    /\ pc' = AfterRuncmd(0)
    /\ UNCHANGED <<kernel, input, parsed, loopv, walks, called>>

\* a handler's return: runcmd returns r to monitor
Return(r) ==
    /\ ret' = r
    /\ pc' = AfterRuncmd(r)

\* argv[n] handed to strtol: the text parsed when the slot points into the
\* line; a null or uninitialized slot is undefined behaviour
ArgOk(n) == argv[n] > 0
ArgVals(n) == IF ArgOk(n) THEN {strtol(CStr(linebuf, argv[n]))} ELSE UBVals

\* the argv indices handler f hands to strtol: map, set, xp and xv parse
\* argv[1] and argv[2] without looking at argc; the others read no argument
ParsedSlots(f) ==
    IF f \in {"mon_map", "mon_set", "mon_xp", "mon_xv"} THEN {1, 2} ELSE {}

\* ------------------------------------------------------------------------
\* Handlers
\* ------------------------------------------------------------------------
Dispatch(f) ==
    /\ pc = "dispatch"
    /\ Func = f
    /\ called' = f

\* a fault in the kernel (page fault on a bad dereference): the monitor is gone
Panic ==
    /\ pc' = "panic"
    /\ UNCHANGED ret

mon_help ==
    /\ Dispatch("mon_help")
    /\ out' = [n \in 1..NCOMMANDS |-> [k |-> "help", name |-> commands[n].name]]
    /\ Return(0)
    /\ UNCHANGED <<kernel, input, parsed, loopv, walks>>

mon_kerninfo ==
    /\ Dispatch("mon_kerninfo")
    /\ out' = <<[k |-> "kerninfo"]>>
    /\ Return(0)
    /\ UNCHANGED <<kernel, input, parsed, loopv, walks>>

\* uint32_t* cur = (uint32_t*)read_ebp(); cprintf("Stack backtrace:\n");
mon_backtrace ==
    /\ Dispatch("mon_backtrace")
    /\ \E e \in DOMAIN KStack : cur' = e
    /\ out' = <<[k |-> "backtrace"]>>
    /\ pc' = "bt_loop"
    /\ UNCHANGED <<kernel, input, parsed, i, lim, start, walks, ret>>

\* mutant: the loop follows the link whatever it is
BtCond_mut(c) == TRUE

\* while (cur)
BtCond(c) == c # Zero

\* do { print frame; cur = (uint32_t*)*cur; } while (cur); return 0;
BacktraceIter ==
    /\ pc = "bt_loop"
    /\ Len(out) <= MaxFrames
    /\ IF cur \in DOMAIN KStack
       THEN /\ out' = Append(out, [k |-> "frame", ebp |-> cur, eip |-> KStack[cur].eip,
                                   args |-> KStack[cur].args])
            /\ cur' = KStack[cur].ebp
            /\ IF BtCond(cur')
               THEN pc' = "bt_loop" /\ UNCHANGED ret
               ELSE Return(0)
       ELSE /\ Panic
            /\ UNCHANGED <<out, cur>>
    /\ UNCHANGED <<kernel, input, parsed, i, lim, start, walks, called>>

\* lines 91-99: parse, range check, round start down
mon_map ==
    /\ Dispatch("mon_map")
    /\ \/ \E s \in ArgVals(1), e \in ArgVals(2) :
            IF MapInvalid(s, e)
            THEN /\ out' = <<[k |-> "invalid_map", start |-> s, end |-> e]>>
                 /\ Return(0)
                 /\ UNCHANGED <<i, lim>>
            ELSE /\ i' = ROUNDDOWN(s)
                 /\ lim' = e
                 /\ out' = <<>>
                 /\ pc' = "map_loop"
                 /\ UNCHANGED ret
       \/ /\ \E n \in ParsedSlots("mon_map") : ~ArgOk(n)
          /\ Panic
          /\ UNCHANGED <<out, i, lim>>
    /\ UNCHANGED <<kernel, input, parsed, start, cur, walks>>

\* for (i = start; i < end; i += PGSIZE) { walk; print row } return 0;
MapIter ==
    /\ pc = "map_loop"
    /\ Len(walks) < MaxRows
    /\ IF MapCond(i, lim)
       THEN /\ pt' = Walk(pt, i)
            /\ walks' = Append(walks, [va |-> i, create |-> TRUE])
            /\ out' = Append(out, PageRow(i, pt'[PGNUM(i)]))
            /\ i' = AddU(i, PGSIZE)
            /\ pc' = "map_loop"
            /\ UNCHANGED ret
       ELSE /\ Return(0)
            /\ UNCHANGED <<pt, walks, out, i>>
    /\ UNCHANGED <<tf, trapframe, runs, runtf, lastset, input, parsed, lim, start, cur, called>>

mon_set ==
    /\ Dispatch("mon_set")
    /\ \/ /\ Return(0)
          /\ \E page \in ArgVals(1), flag \in ArgVals(2) :
                IF SetInvalid(page)
                THEN /\ out' = <<[k |-> "invalid_set", page |-> page]>>
                     /\ UNCHANGED <<pt, walks, lastset>>
                ELSE LET pg == SetTarget(page)
                         t  == Walk(pt, pg)
                     IN  /\ walks' = Append(walks, [va |-> pg, create |-> TRUE])
                         /\ pt' = [t EXCEPT ![PGNUM(pg)] = SetEntry(t[PGNUM(pg)], flag)]
                         /\ out' = <<PageRow(pg, pt'[PGNUM(pg)])>>
                         /\ lastset' = [pn |-> PGNUM(pg), flag |-> flag,
                                        before |-> PGNUM(t[PGNUM(pg)])]
       \/ /\ \E n \in ParsedSlots("mon_set") : ~ArgOk(n)
          /\ Panic
          /\ UNCHANGED <<pt, walks, out, lastset>>
    /\ UNCHANGED <<tf, trapframe, runs, runtf, input, parsed, loopv>>

\* KADDR(pa): the kernel virtual address of physical address pa
KADDR(pa) == Add32(pa, KERNBASE)

\* one line of the dump: the address printed and the four addresses read
DumpRowP(a) ==
    [k |-> "dump", addr |-> a,
     read |-> <<KADDR(a), KADDR(AddU(a, 4)), KADDR(AddU(a, 8)), KADDR(AddU(a, 12))>>]

DumpRowV(a) ==
    [k |-> "dump", addr |-> a,
     read |-> <<a, AddU(a, 4), AddU(a, 8), AddU(a, 12)>>]

\* start = strtol(argv[1]); length = strtol(argv[2]); i = 0
DumpBegin(f, loop) ==
    /\ Dispatch(f)
    /\ \/ \E s \in ArgVals(1), len \in ArgVals(2) :
            /\ start' = s
            /\ lim' = len
            /\ i' = Zero
            /\ pc' = loop
       \/ /\ \E n \in ParsedSlots(f) : ~ArgOk(n)
          /\ pc' = "panic"
          /\ UNCHANGED <<i, lim, start>>
    /\ UNCHANGED <<kernel, input, parsed, cur, out, walks, ret>>

mon_xp == DumpBegin("mon_xp", "xp_loop")

mon_xv == DumpBegin("mon_xv", "xv_loop")

\* for (i = 0; i < length; i+=4, start+=16) cprintf(...); return 0;
\* the four reads fault when the memory is not there
XpIter ==
    /\ pc = "xp_loop"
    /\ IF Lt(i, lim)
       THEN \/ /\ out' = Append(out, DumpRowP(start))
               /\ i' = AddU(i, 4)
               /\ start' = AddU(start, 16)
               /\ pc' = "xp_loop"
               /\ UNCHANGED ret
            \/ /\ Panic
               /\ UNCHANGED <<out, i, start>>
       ELSE /\ Return(0)
            /\ UNCHANGED <<out, i, start>>
    /\ UNCHANGED <<kernel, input, parsed, lim, cur, walks, called>>

XvIter ==
    /\ pc = "xv_loop"
    /\ IF Lt(i, lim)
       THEN \/ /\ out' = Append(out, DumpRowV(start))
               /\ i' = AddU(i, 4)
               /\ start' = AddU(start, 16)
               /\ pc' = "xv_loop"
               /\ UNCHANGED ret
            \/ /\ Panic
               /\ UNCHANGED <<out, i, start>>
       ELSE /\ Return(0)
            /\ UNCHANGED <<out, i, start>>
    /\ UNCHANGED <<kernel, input, parsed, lim, cur, walks, called>>

\* env_run(curenv): does not return; the processor leaves the monitor
env_run ==
    /\ runs' = runs + 1
    /\ runtf' = trapframe'
    /\ pc' = "env_run"

mon_c ==
    /\ Dispatch("mon_c")
    /\ IF InvalidTrapframe(tf, trapframe)
       THEN /\ out' = <<[k |-> "invalid_trapframe"]>>
            /\ Return(-1)
            /\ UNCHANGED <<trapframe, runs, runtf>>
       ELSE /\ trapframe' = [trapframe EXCEPT !.tf_eflags = ClearTF(@)]
            /\ env_run
            /\ UNCHANGED <<out, ret>>
    /\ UNCHANGED <<tf, pt, lastset, input, parsed, loopv, walks>>

mon_si ==
    /\ Dispatch("mon_si")
    /\ IF InvalidTrapframe(tf, trapframe)
       THEN /\ out' = <<[k |-> "invalid_trapframe"]>>
            /\ Return(-1)
            /\ UNCHANGED <<trapframe, runs, runtf>>
       ELSE /\ out' = <<[k |-> "eip", eip |-> trapframe.tf_eip]>>
            /\ trapframe' = [trapframe EXCEPT !.tf_eflags = SetTF(@)]
            /\ env_run
            /\ UNCHANGED ret
    /\ UNCHANGED <<tf, pt, lastset, input, parsed, loopv, walks>>

Next ==
    \/ Start
    \/ ReadLine
    \/ RunCmdParse
    \/ RunCmdEmpty
    \/ RunCmdUnknown
    \/ mon_help
    \/ mon_kerninfo
    \/ mon_backtrace
    \/ BacktraceIter
    \/ mon_map
    \/ MapIter
    \/ mon_set
    \/ mon_xp
    \/ mon_xv
    \/ XpIter
    \/ XvIter
    \/ mon_c
    \/ mon_si

Spec == Init /\ [][Next]_vars

\* ------------------------------------------------------------------------
\* runcmd's tokenizer on its own: every short line over blanks and letters
\* ------------------------------------------------------------------------
TokAlphabet == {" ", "\t", "\r", "\n", "a", "b"}

TokLines ==
    UNION {[1..n -> TokAlphabet] : n \in 0..MaxTokLen}
    \cup {SP \o SP \o c_help \o SP \o SP}

InitTok ==
    /\ pc = "runcmd"
    /\ tf = NULL
    /\ trapframe = NoFrame
    /\ pt = BootPt
    /\ buf = 1
    /\ linebuf \in TokLines
    /\ argc = 0
    /\ argv = NoArgv
    /\ wr = {}
    /\ out = <<>>
    /\ walks = <<>>
    /\ ret = 0
    /\ called = "none"
    /\ runs = 0
    /\ runtf = NoFrame
    /\ i = Zero
    /\ lim = Zero
    /\ start = Zero
    /\ cur = Zero
    /\ lastset = NoSet

SpecTok == InitTok /\ [][RunCmdParse]_vars

\* ------------------------------------------------------------------------
\* map over ranges that end in the last pages of the 32-bit address space
\* ------------------------------------------------------------------------
WrapNums == {n_0xffffe000, n_0xffffe800, n_0xfffff000, n_0xfffff001, n_top, n_0xffffffff}

WrapLines ==
    {Cmd2(c_map, a, b) : a \in WrapNums, b \in WrapNums}
    \cup {Cmd2(c_map, n_0x1000, n_0x3000), c_map \o SP \o n_0xfffff000}

InitWrap ==
    /\ pc = "runcmd"
    /\ tf = NULL
    /\ trapframe = NoFrame
    /\ pt = BootPt
    /\ buf = 1
    /\ linebuf \in WrapLines
    /\ argc = 0
    /\ argv = NoArgv
    /\ wr = {}
    /\ out = <<>>
    /\ walks = <<>>
    /\ ret = 0
    /\ called = "none"
    /\ runs = 0
    /\ runtf = NoFrame
    /\ i = Zero
    /\ lim = Zero
    /\ start = Zero
    /\ cur = Zero
    /\ lastset = NoSet

NextWrap ==
    \/ RunCmdParse
    \/ mon_map
    \/ MapIter

SpecWrap == InitWrap /\ [][NextWrap]_vars

\* ------------------------------------------------------------------------
\* Properties
\* ------------------------------------------------------------------------
\* the numeric value of argv[n]
Arg(n) == strtol(CStr(linebuf, argv[n]))

\* both numeric arguments of the command were given
TwoArgs == ArgOk(1) /\ ArgOk(2)

\* the handler about to be entered
Entering(f) == pc = "dispatch" /\ Func = f

\* number of maximal runs of non-blank characters in a line buffer
TokenCount(b) ==
    Cardinality({p \in 1..Len(b) :
                    /\ b[p] \notin WHITESPACE \cup {NUL}
                    /\ (p = 1 \/ b[p - 1] \in WHITESPACE \cup {NUL})})

\* bit n (0 = least significant) of the low 12 bits of a word
BitSet(w, n) == (w[2] \div (2 ^ n)) % 2 = 1

\* C1: for every address set accepts and every flags value, the frame-address
\* bits (12..31) of the entry after set equal those of the entry before set.
C1_SetKeepsFrame ==
    [][(Entering("mon_set") /\ pc' # "panic")
        => \A n \in DOMAIN pt' : PGNUM(pt'[n]) = PGNUM(Walk(pt, <<n, 0>>)[n])]_vars

\* C2: c or si with no paused context, or one whose trap number is neither
\* breakpoint nor single-step, returns a negative status, leaves the context
\* untouched, does not call env_run, and the monitor loop ends, for good.
C2_InvalidContextStops ==
    [][/\ ((Entering("mon_c") \/ Entering("mon_si"))
            /\ (tf = NULL \/ trapframe.tf_trapno \notin {T_BRKPT, T_DEBUG}))
          => (ret' < 0 /\ trapframe' = trapframe /\ runs' = runs
              /\ runtf' = runtf /\ pc' = "done")
       /\ (pc = "done" => pc' = "done" /\ buf' = buf)]_vars

C2_Witness ==
    /\ pc = "done"
    /\ called = "mon_si"
    /\ tf # NULL
    /\ trapframe.tf_trapno = T_PGFLT
    /\ ret = -1

\* C3: once readline has returned NULL the monitor has returned: no further
\* line is read and no command is dispatched.
C3_EofTerminates == buf = NULL => pc = "done"

\* C4: set rejects every address >= KERNBASE (KERNBASE itself included): an
\* error is printed, the walker is not called, no entry changes, status 0.
C4_SetRejectsKernel ==
    [][(Entering("mon_set") /\ TwoArgs /\ ~Lt(Arg(1), KERNBASE))
        => (/\ Len(out') = 1 /\ out'[1].k = "invalid_set"
            /\ walks' = <<>>
            /\ pt' = pt
            /\ ret' = 0
            /\ pc' = "readline")]_vars

\* C5: the tokenizer stores at most MAXARGS-1 tokens and writes argv only at
\* indices 0..MAXARGS-1; a line of up to MAXARGS-1 tokens is accepted with
\* every token kept, a longer one is rejected with an error and no handler.
C5_TokenizerBounded ==
    [][pc = "runcmd"
        => LET n == TokenCount(linebuf)
           IN  /\ wr' \subseteq 0..(MAXARGS - 1)
               /\ argc' <= MAXARGS - 1
               /\ NCOMMANDS = 9
               /\ IF n <= MAXARGS - 1
                  THEN pc' = "dispatch" /\ argc' = n
                       /\ \A k \in 0..(n - 1) : argv'[k] > 0
                       /\ argv'[n] = NULL
                  ELSE /\ pc' = "readline"
                       /\ called' = "none"
                       /\ ret' = 0
                       /\ Len(out') = 1 /\ out'[1].k = "too_many"]_vars

C5_Witness ==
    /\ pc = "readline"
    /\ Len(out) = 1
    /\ out[1].k = "too_many"
    /\ TokenCount(linebuf) = MAXARGS + 1
    /\ called = "none"

\* C6: xp and xv with length L dump exactly L words, for every L >= 0.
C6_DumpExactLength ==
    (called \in {"mon_xp", "mon_xv"} /\ pc = "readline" /\ TwoArgs)
        => 4 * Len(out) = Arg(2)[2] /\ Arg(2)[1] = 0

\* C7 as stated: map with start == end prints no row and never calls the
\* walker, whether or not start is page-aligned.
C7_EmptyRangeAnyStart ==
    (called = "mon_map" /\ TwoArgs /\ Arg(1) = Arg(2))
        => (out = <<>> /\ walks = <<>>)

\* C7, amended: map with start == end and start page-aligned prints no row,
\* never calls the walker, and returns 0.
C7_EmptyRangeAligned ==
    (called = "mon_map" /\ TwoArgs /\ Arg(1) = Arg(2) /\ Arg(1)[2] = 0)
        => (/\ out = <<>>
            /\ walks = <<>>
            /\ ret = 0
            /\ pc \in {"map_loop", "readline"}
            /\ (pc = "map_loop" => i = Arg(1)))

C7_Witness ==
    /\ called = "mon_map"
    /\ pc = "readline"
    /\ TwoArgs
    /\ Arg(1) = Arg(2)
    /\ Arg(1)[2] = 0
    /\ out = <<>>

\* C8: map with start > end (compared as given, before start is rounded down)
\* prints an error and no row, never calls the walker, changes no entry and
\* returns 0.
C8_MapRejectsInverted ==
    [][(Entering("mon_map") /\ TwoArgs /\ Lt(Arg(2), Arg(1)))
        => (/\ out' = <<[k |-> "invalid_map", start |-> Arg(1), end |-> Arg(2)]>>
            /\ walks' = <<>>
            /\ pt' = pt
            /\ ret' = 0
            /\ pc' = "readline")]_vars

C8_Witness ==
    /\ called = "mon_map"
    /\ pc = "readline"
    /\ TwoArgs
    /\ Lt(Arg(2), Arg(1))
    /\ Lt(ROUNDDOWN(Arg(1)), Arg(2))
    /\ Len(out) = 1
    /\ out[1].k = "invalid_map"

\* the status string the flags word f asks for: G S D A C T U W P, bit 8 first
ExpectedStatus(f) ==
    [n \in 1..9 |-> IF BitSet(f, 9 - n)
                    THEN <<"G", "S", "D", "A", "C", "T", "U", "W", "P">>[n]
                    ELSE "-"]

\* C9: after set(page, flags), a map over that page shows exactly the flags
\* passed to set and the frame number the entry had before the set.
C9_SetThenMap ==
    called = "mon_map"
        => \A r \in 1..Len(out) :
              (out[r].k = "row" /\ out[r].lo = lastset.pn)
                  => (/\ out[r].status = ExpectedStatus(lastset.flag)
                      /\ out[r].frame = lastset.before)

\* a valid paused context: present, trap number breakpoint or single-step
ValidContext == tf # NULL /\ trapframe.tf_trapno \in {T_BRKPT, T_DEBUG}

\* env_run was called once, with the context as it now is, and nothing else moved
Resumed ==
    /\ runs = 0
    /\ runs' = 1
    /\ runtf' = trapframe'
    /\ tf' = tf
    /\ pt' = pt
    /\ pc' = "env_run"

\* C10: with a valid paused context c clears the single-step bit and si sets
\* it, before env_run is called; nothing else in the context changes, env_run
\* is called once, and the monitor reads no further line.
C10_ResumeTogglesTF ==
    [][/\ (Entering("mon_c") /\ ValidContext)
          => (/\ trapframe' = [trapframe EXCEPT !.tf_eflags =
                    <<@[1], IF BitSet(@, 8) THEN @[2] - 256 ELSE @[2]>>]
              /\ Resumed)
       /\ (Entering("mon_si") /\ ValidContext)
          => (/\ trapframe' = [trapframe EXCEPT !.tf_eflags =
                    <<@[1], IF BitSet(@, 8) THEN @[2] ELSE @[2] + 256>>]
              /\ Resumed)
       /\ (pc = "env_run" => pc' = "env_run" /\ buf' = buf)]_vars

C10_Witness ==
    /\ pc = "env_run"
    /\ called = "mon_c"
    /\ runs = 1
    /\ trapframe.tf_trapno = T_DEBUG
    /\ runtf.tf_eflags = <<64, 519>>

\* the registered command names
Names == {commands[n].name : n \in 1..NCOMMANDS}

\* the kernel state a command could touch is as it was
KernelUntouched ==
    /\ tf' = tf
    /\ trapframe' = trapframe
    /\ pt' = pt
    /\ runs' = runs
    /\ runtf' = runtf

\* C11: a line whose first token is no registered name, and an empty or
\* whitespace-only line, invoke no handler, return 0 (the loop reads on) and
\* leave the paused context and every page-table entry unchanged.
C11_UnknownIsHarmless ==
    [][(pc = "dispatch"
         /\ (TokenCount(linebuf) = 0 \/ CStr(linebuf, argv[0]) \notin Names))
        => (/\ called' = "none"
            /\ ret' = 0
            /\ pc' = "readline"
            /\ walks' = <<>>
            /\ KernelUntouched)]_vars

C11_Witness ==
    /\ pc = "readline"
    /\ called = "none"
    /\ ret = 0
    /\ Len(out) = 1
    /\ out[1].k = "unknown"
    /\ out[1].name = <<"c", "c">>

\* the frame pointers of the frame lines printed so far
FrameLines == [k \in 1..(Len(out) - 1) |-> out[k + 1].ebp]

\* the frames reached from e by saved frame pointers, e first, while the link
\* is not zero; n bounds the length
RECURSIVE Chain(_, _)
Chain(e, n) ==
    IF n = 0 \/ e \notin DOMAIN KStack
    THEN <<>>
    ELSE <<e>> \o (IF KStack[e].ebp = Zero THEN <<>> ELSE Chain(KStack[e].ebp, n - 1))

\* e starts a chain that ends in a zero saved frame pointer
ZeroEnded(e) ==
    LET ch == Chain(e, Cardinality(DOMAIN KStack))
    IN  KStack[ch[Len(ch)]].ebp = Zero

\* C12: on a chain of n frames whose outermost saved frame pointer is zero the
\* unwinder prints the n frames, innermost first, each once, then returns 0; it
\* never reads through the zero link (no fault).  On a cyclic chain it does not
\* return.
C12_BacktraceStops ==
    [][(pc = "bt_loop" /\ pc' # "bt_loop")
        => (/\ pc' = "readline"
            /\ ret' = 0
            /\ out'[1].k = "backtrace"
            /\ LET fr == [k \in 1..(Len(out') - 1) |-> out'[k + 1].ebp]
               IN  /\ ZeroEnded(fr[1])
                   /\ fr = Chain(fr[1], Cardinality(DOMAIN KStack))
                   /\ \A a, b \in DOMAIN fr : a # b => fr[a] # fr[b]
                   /\ \A a \in DOMAIN fr : out'[a + 1].k = "frame")]_vars

C12_Witness ==
    /\ pc = "readline"
    /\ called = "mon_backtrace"
    /\ FrameLines = <<F1, F2, F3>>

\* the whitespace characters the specification names
Blank == {" ", "\t", "\r", "\n"}

\* the positions of b where a maximal run of non-whitespace starts
RunStarts(b) ==
    {p \in 1..Len(b) : b[p] \notin Blank /\ (p = 1 \/ b[p - 1] \in Blank)}

\* the start of the k-th run, counting from 1, left to right
RunStart(b, k) ==
    CHOOSE p \in RunStarts(b) : Cardinality({q \in RunStarts(b) : q < p}) = k - 1

\* the k-th run
Run(b, k) ==
    LET s == RunStart(b, k)
        e == CHOOSE x \in s..Len(b) :
                 /\ \A q \in s..x : b[q] \notin Blank
                 /\ x = Len(b) \/ b[x + 1] \in Blank
    IN  SubSeq(b, s, e)

\* C13: for an accepted line argc is the number of maximal runs of
\* non-whitespace characters, argv[k] is the k-th run in left-to-right order,
\* terminated and free of whitespace, and argv[argc] is null.
C13_TokensAreRuns ==
    [][(pc = "runcmd" /\ pc' = "dispatch")
        => (/\ argc' = Cardinality(RunStarts(linebuf))
            /\ argv'[argc'] = NULL
            /\ \A k \in 0..(argc' - 1) :
                  /\ argv'[k] = RunStart(linebuf, k + 1)
                  /\ CStr(linebuf', argv'[k]) = Run(linebuf, k + 1)
                  /\ At(linebuf', argv'[k] + Len(Run(linebuf, k + 1))) = NUL)]_vars

C13_Witness ==
    /\ pc = "dispatch"
    /\ Len(linebuf) = 8
    /\ argc = 1
    /\ CStr(linebuf, argv[0]) = c_help
    /\ argv[1] = NULL

\* control is inside runcmd or a handler
InCommand == pc \in {"runcmd", "dispatch", "map_loop", "xp_loop", "xv_loop", "bt_loop"}

\* C14: the loop stops only on a negative status, and only c or si without a
\* valid paused context returns one; every other command that returns (help,
\* kerninfo, backtrace, map, set, xp, xv with their error paths, unknown
\* commands, empty lines, lines with too many arguments) returns a status >= 0
\* and the loop reads another line.
C14_OnlyContextErrorsStop ==
    [][/\ (ret' < 0) <=> (pc' = "done")
       /\ (pc # "done" /\ pc' = "done")
             => (/\ Entering("mon_c") \/ Entering("mon_si")
                 /\ ~ValidContext)
       /\ (InCommand /\ pc' \in {"readline", "done"} /\ called' \notin {"mon_c", "mon_si"})
             => (ret' >= 0 /\ pc' = "readline")]_vars

C14_Witness ==
    /\ pc = "readline"
    /\ called = "mon_set"
    /\ Len(out) = 1
    /\ out[1].k = "invalid_set"
    /\ ret = 0

\* the page holding the last byte below e, for e # 0
LastPage(e) == IF e[2] = 0 THEN e[1] - 1 ELSE e[1]

\* a map command with both arguments given and start < end is running or has
\* just returned
MapRunning ==
    /\ called = "mon_map"
    /\ pc \in {"map_loop", "readline"}
    /\ TwoArgs
    /\ Lt(Arg(1), Arg(2))

\* C15: for start < end map prints one row per page overlapping [start, end):
\* the first row is the page holding start, the rows go up by one page each,
\* none is past the page holding end - 1, the walker is called once per row
\* with create enabled, and on return no page of the range is missing.
C15_MapRowPerPage ==
    MapRunning
    => (/\ Len(walks) = Len(out)
        /\ \A r \in 1..Len(out) :
              /\ out[r].k = "row"
              /\ out[r].lo = PGNUM(Arg(1)) + r - 1
              /\ out[r].lo <= LastPage(Arg(2))
              /\ walks[r] = [va |-> <<out[r].lo, 0>>, create |-> TRUE]
        /\ pc = "readline" => Len(out) = LastPage(Arg(2)) - PGNUM(Arg(1)) + 1)

\* C18: map terminates for every start <= end, the ranges ending in the last
\* page included: each pass moves the loop variable forward, and the loop is
\* left after at most one pass per page of [start, end).
C18_MapTerminates ==
    [][(pc = "map_loop" /\ pc' = "map_loop" /\ TwoArgs)
        => (/\ Lt(i, i')
            /\ Len(walks') <= LastPage(Arg(2)) - PGNUM(Arg(1)) + 1)]_vars

\* the first registry entry whose name is the token t
FirstEntry(t) ==
    CHOOSE n \in 1..NCOMMANDS :
        /\ commands[n].name = t
        /\ \A m \in 1..(n - 1) : commands[m].name # t

\* C16: a line whose first token is, character for character, a registered
\* name invokes the handler of the first entry with that name, once, with the
\* argument vector and the context as runcmd has them; the status the handler
\* returns is runcmd's status; the registered names are pairwise distinct.
C16_ExactNameDispatch ==
    [][/\ (pc = "dispatch" /\ argc > 0 /\ CStr(linebuf, argv[0]) \in Names)
            => (/\ called = "none"
                /\ called' = commands[FirstEntry(CStr(linebuf, argv[0]))].func
                /\ <<argc', argv', linebuf', tf'>> = <<argc, argv, linebuf, tf>>
                /\ pc' \in {"readline", "done"} => pc' = (IF ret' < 0 THEN "done" ELSE "readline"))
       /\ (pc = "dispatch" /\ argc > 0 /\ CStr(linebuf, argv[0]) \notin Names)
            => called' = "none"
       /\ (called # "none" /\ pc # "readline") => called' = called
       /\ \A a, b \in 1..NCOMMANDS : a # b => commands[a].name # commands[b].name]_vars

C16_Witness ==
    /\ called = "mon_si"
    /\ CStr(linebuf, argv[0]) = c_si
    /\ argc = 1
    /\ pc = "env_run"

\* C17: a handler reads argv[n] only for n < argc: whenever a handler is
\* invoked, every argv index it hands to the numeric parser is below argc, so
\* the null marker argv[argc] and the slots behind it are never parsed.
C17_ArgsWithinArgc ==
    [][\A f \in {commands[n].func : n \in 1..NCOMMANDS} :
          (Entering(f) /\ called' = f)
             => \A n \in ParsedSlots(f) : n < argc /\ ArgOk(n)]_vars

\* the page numbers the set command about to run may name
SetPage == {PGNUM(v) : v \in ArgVals(1)}

\* C19: only set changes the value of a page-table entry, and only of its own
\* page's entry; only c and si change the paused context; help, kerninfo,
\* backtrace, xp, xv and map leave the context and every existing entry as
\* they are, map at most adding missing entries (zeroed); no entry is removed.
C19_Frame ==
    [][/\ tf' = tf
       /\ trapframe' # trapframe => (Entering("mon_c") \/ Entering("mon_si"))
       /\ \A n \in DOMAIN pt :
             /\ n \in DOMAIN pt'
             /\ pt'[n] # pt[n] => (Entering("mon_set") /\ n \in SetPage)
       /\ \A n \in DOMAIN pt' \ DOMAIN pt :
             \/ called' = "mon_map" /\ pc = "map_loop" /\ pt'[n] = Zero
             \/ Entering("mon_set") /\ n \in SetPage]_vars

C19_Witness ==
    /\ pc = "readline"
    /\ called = "mon_map"
    /\ Len(out) = 2
    /\ DOMAIN pt = {1, 2, 983040}
    /\ pt[2] = Zero
    /\ pt[1] # BootPt[1]
    /\ trapframe \in Trapframes

====
